---- MODULE Spec2Model ----
(***************************************************************************)
(* The API response cache of the SurveyAnalytics dashboard: class APICache *)
(* (an expiring key-value store), the singleton apiCache, the async        *)
(* wrapper fetchWithCache and clearCacheByPattern.                         *)
(*                                                                         *)
(* JavaScript strings are sequences of one-character strings, so that      *)
(* concatenation and String.prototype.includes are computed, not assumed.  *)
(* An optional argument is None (omitted) or Some(x).                      *)
(***************************************************************************)
EXTENDS Integers, Sequences, FiniteSets, TLC

VARIABLES
    now,         \* the value Date.now() returns
    ctorArg,     \* the argument the store was constructed with
    defaultTTL,  \* APICache.defaultTTL
    cache,       \* APICache.cache: a Map, kept in insertion order
    calls,       \* the invocations of fetchWithCache, in call order
    ret          \* the last operation performed and what it returned

vars == <<now, ctorArg, defaultTTL, cache, calls, ret>>

----------------------------------------------------------------------------
(* Values *)

None == <<>>
Some(x) == <<x>>

\* null, as a payload and as the result of get
Null == "null"

\* what a void function returns
Void == "undefined"

GET == <<"G", "E", "T">>
POST == <<"P", "O", "S", "T">>
LowerGet == <<"g", "e", "t">>
EmptyStr == <<>>
Colon == <<":">>

UrlAX == <<"h", "t", "t", "p", "s", ":", "/", "/", "a", "/", "x">>
UrlAY == <<"h", "t", "t", "p", "s", ":", "/", "/", "a", "/", "y">>
UrlBZ == <<"h", "t", "t", "p", "s", ":", "/", "/", "b", "/", "z">>
\* one resource with two query strings
UrlAXQ1 == UrlAX \o <<"?", "q", "=", "1">>
UrlAXQ2 == UrlAX \o <<"?", "q", "=", "2">>

KeyK == <<"k">>
KeyJ == <<"j">>

----------------------------------------------------------------------------
(* The Map behind APICache.cache: a sequence of <<key, item>> pairs with   *)
(* distinct keys, in insertion order.                                      *)

MapKeys(m) == [i \in 1..Len(m) |-> m[i][1]]

MapHas(m, key) == \E i \in 1..Len(m) : m[i][1] = key

MapIndex(m, key) == CHOOSE i \in 1..Len(m) : m[i][1] = key

\* Map.prototype.get: the item, or None for undefined
MapGet(m, key) == IF MapHas(m, key) THEN Some(m[MapIndex(m, key)][2]) ELSE None

\* Map.prototype.set: an existing key keeps its place, a new one is appended
MapSet(m, key, item) ==
    IF MapHas(m, key)
    THEN [m EXCEPT ![MapIndex(m, key)] = <<key, item>>]
    ELSE Append(m, <<key, item>>)

MapDelete(m, key) ==
    LET Other(p) == p[1] # key IN SelectSeq(m, Other)

----------------------------------------------------------------------------
(* class APICache *)

\* variant of FiveMinutes: the default counted in seconds
FiveMinutesInSeconds == 5 * 60

FiveMinutes == 5 * 60 * 1000

ConstructorDefault(arg) == IF arg = None THEN FiveMinutes ELSE arg[1]

\* ttl || this.defaultTTL: an omitted ttl and the falsy ttl 0 both give the default
EffectiveTTL(ttl, dflt) == IF ttl = None \/ ttl[1] = 0 THEN dflt ELSE ttl[1]

\* the CacheItem that set builds at time t
NewItem(data, ttl, t, dflt) ==
    [data |-> data, timestamp |-> t, expiresAt |-> t + EffectiveTTL(ttl, dflt)]

\* variant of IsExpired: expired from the expiry time on
IsExpiredAtOrAfter(item, t) == t >= item.expiresAt

\* Date.now() > item.expiresAt
IsExpired(item, t) == t > item.expiresAt

\* variant of StoreSet: a key that is present keeps its old times
StoreSetKeepExpiry(m, key, data, ttl, t, dflt) ==
    IF MapHas(m, key)
    THEN MapSet(m, key, [MapGet(m, key)[1] EXCEPT !.data = data])
    ELSE MapSet(m, key, NewItem(data, ttl, t, dflt))

\* the store after set(key, data, ttl) at time t
StoreSet(m, key, data, ttl, t, dflt) == MapSet(m, key, NewItem(data, ttl, t, dflt))

\* variant of StoreGet: reading a fresh entry starts its lifetime again
StoreGetTouching(m, key, t) ==
    LET item == MapGet(m, key) IN
    IF item = None THEN [val |-> Null, cache |-> m]
    ELSE IF IsExpired(item[1], t) THEN [val |-> Null, cache |-> MapDelete(m, key)]
    ELSE [val |-> item[1].data,
          cache |-> MapSet(m, key, [item[1] EXCEPT !.expiresAt = t + (@ - item[1].timestamp),
                                                   !.timestamp = t])]

\* variant of StoreGet: an expired entry is left in the store
StoreGetNoPurge(m, key, t) ==
    LET item == MapGet(m, key) IN
    IF item = None THEN [val |-> Null, cache |-> m]
    ELSE IF IsExpired(item[1], t) THEN [val |-> Null, cache |-> m]
    ELSE [val |-> item[1].data, cache |-> m]

\* variant of StoreGet: the expiry time is not looked at
StoreGetIgnoreExpiry(m, key, t) ==
    LET item == MapGet(m, key) IN
    IF item = None THEN [val |-> Null, cache |-> m]
    ELSE [val |-> item[1].data, cache |-> m]

\* get(key) at time t: the value returned and the store it leaves
StoreGet(m, key, t) ==
    LET item == MapGet(m, key) IN
    IF item = None THEN [val |-> Null, cache |-> m]
    ELSE IF IsExpired(item[1], t) THEN [val |-> Null, cache |-> MapDelete(m, key)]
    ELSE [val |-> item[1].data, cache |-> m]

\* variant of StoreClearExpired: an entry at its expiry time is removed too
StoreClearExpiredAtOrAfter(m, t) ==
    LET Fresh(p) == ~(t >= p[2].expiresAt) IN SelectSeq(m, Fresh)

\* clearExpired() at time t
StoreClearExpired(m, t) ==
    LET Fresh(p) == ~(t > p[2].expiresAt) IN SelectSeq(m, Fresh)

\* getStats()
StoreStats(m) == [size |-> Len(m), keys |-> MapKeys(m)]

\* the record of an operation: its name, its key argument and what it returned
\* (a value, a boolean, a number, a list of keys), each kind in a field of its own
Ret(op, key) == [op |-> op, key |-> key, val |-> Void, bool |-> FALSE, num |-> 0, keys |-> <<>>]

set(key, data, ttl) ==
    /\ cache' = StoreSet(cache, key, data, ttl, now, defaultTTL)
    /\ ret' = Ret("set", key)
    /\ UNCHANGED <<now, ctorArg, defaultTTL, calls>>

get(key) ==
    LET r == StoreGet(cache, key, now) IN
    /\ cache' = r.cache
    /\ ret' = [Ret("get", key) EXCEPT !.val = r.val]
    /\ UNCHANGED <<now, ctorArg, defaultTTL, calls>>

\* variant of has: the key is looked up in the Map, whatever its expiry
hasKey(key) ==
    /\ cache' = cache
    /\ ret' = [Ret("has", key) EXCEPT !.bool = MapHas(cache, key)]
    /\ UNCHANGED <<now, ctorArg, defaultTTL, calls>>

has(key) ==
    LET r == StoreGet(cache, key, now) IN
    /\ cache' = r.cache
    /\ ret' = [Ret("has", key) EXCEPT !.bool = (r.val # Null)]
    /\ UNCHANGED <<now, ctorArg, defaultTTL, calls>>

\* variant of delete: an expired entry is left for get to purge
deleteFresh(key) ==
    /\ cache' = IF MapHas(cache, key) /\ IsExpired(MapGet(cache, key)[1], now)
                THEN cache
                ELSE MapDelete(cache, key)
    /\ ret' = Ret("delete", key)
    /\ UNCHANGED <<now, ctorArg, defaultTTL, calls>>

delete(key) ==
    /\ cache' = MapDelete(cache, key)
    /\ ret' = Ret("delete", key)
    /\ UNCHANGED <<now, ctorArg, defaultTTL, calls>>

\* variant of clear: the calls waiting for the network are ended as well
clearAborting ==
    /\ cache' = <<>>
    /\ calls' = [i \in 1..Len(calls) |->
                    IF calls[i].pc \in {"fetch", "json"}
                    THEN [calls[i] EXCEPT !.pc = "threw", !.result = Some([name |-> "AbortError", message |-> "aborted", status |-> 0])]
                    ELSE calls[i]]
    /\ ret' = Ret("clear", EmptyStr)
    /\ UNCHANGED <<now, ctorArg, defaultTTL>>

clear ==
    /\ cache' = <<>>
    /\ ret' = Ret("clear", EmptyStr)
    /\ UNCHANGED <<now, ctorArg, defaultTTL, calls>>

clearExpired ==
    /\ cache' = StoreClearExpired(cache, now)
    /\ ret' = Ret("clearExpired", EmptyStr)
    /\ UNCHANGED <<now, ctorArg, defaultTTL, calls>>

\* variant of size: only the entries that have not expired are counted
sizeFresh ==
    /\ ret' = [Ret("size", EmptyStr) EXCEPT !.num = Len(StoreClearExpired(cache, now))]
    /\ UNCHANGED <<now, ctorArg, defaultTTL, cache, calls>>

size ==
    /\ ret' = [Ret("size", EmptyStr) EXCEPT !.num = Len(cache)]
    /\ UNCHANGED <<now, ctorArg, defaultTTL, cache, calls>>

getStats ==
    /\ ret' = [Ret("getStats", EmptyStr) EXCEPT !.num = StoreStats(cache).size, !.keys = StoreStats(cache).keys]
    /\ UNCHANGED <<now, ctorArg, defaultTTL, cache, calls>>

\* time passes: Date.now() moves to a later reading
Advance(t) ==
    /\ t > now
    /\ now' = t
    /\ ret' = Ret("Date.now", EmptyStr)
    /\ UNCHANGED <<ctorArg, defaultTTL, cache, calls>>

\* new APICache(arg) at time t
Constructed(arg, t) ==
    /\ now = t
    /\ ctorArg = arg
    /\ defaultTTL = ConstructorDefault(arg)
    /\ cache = <<>>
    /\ calls = <<>>
    /\ ret = Ret("constructor", EmptyStr)

----------------------------------------------------------------------------
(* The store on its own: a store built with or without a default TTL,      *)
(* driven through its methods while the clock moves.                       *)

StoreKeys == {KeyK, KeyJ}
StoreData == {"v1", "v2", Null}
StoreTTLs == {None, Some(0), Some(500)}
StoreCtorArgs == {None, Some(1000)}
StoreClock == {0, 500, 1000, 1500, 300000, 300001}

InitStore == \E arg \in StoreCtorArgs : Constructed(arg, 0)

NextStore ==
    \/ \E key \in StoreKeys, data \in StoreData, ttl \in StoreTTLs : set(key, data, ttl)
    \/ \E key \in StoreKeys : get(key)
    \/ \E key \in StoreKeys : has(key)
    \/ \E key \in StoreKeys : delete(key)
    \/ clear
    \/ clearExpired
    \/ size
    \/ getStats
    \/ \E t \in StoreClock : Advance(t)

SpecStore == InitStore /\ [][NextStore]_vars

----------------------------------------------------------------------------
(* fetchWithCache and clearCacheByPattern, over the singleton apiCache.    *)
(* A call is suspended twice: at await fetch(...) and at await             *)
(* response.json(); anything may run while it is suspended.                *)

\* variant of MethodOf: the method is compared whatever its case
MethodOfAnyCase(options) ==
    IF options.method = None \/ options.method[1] = EmptyStr \/ options.method[1] = LowerGet
    THEN GET
    ELSE options.method[1]

\* options?.method || 'GET': an omitted and an empty method both give GET
MethodOf(options) ==
    IF options.method = None \/ options.method[1] = EmptyStr
    THEN GET
    ELSE options.method[1]

\* variant of CacheKey: the method is left out of the key
CacheKeyUrlOnly(method, url) == url

\* `${method}:${url}`
CacheKey(method, url) == method \o Colon \o url

CallKey(c) == CacheKey(MethodOf(c.options), c.url)

\* what fetch resolves to: response.ok is true for the statuses 200..299
Response(status, body) == [status |-> status, ok |-> status \in 200..299, body |-> body]

HttpError(status) == [name |-> "Error", message |-> "HTTP error! status: ", status |-> status]
NetworkError == [name |-> "TypeError", message |-> "fetch failed", status |-> 0]
ParseError == [name |-> "SyntaxError", message |-> "invalid JSON", status |-> 0]

\* variant of CacheLookup: a call that carries headers skips the lookup
CacheLookupWithoutHeaders(m, url, options, t) ==
    IF MethodOf(options) = GET /\ ("headers" \notin DOMAIN options \/ options.headers = None)
    THEN LET r == StoreGet(m, CacheKey(GET, url), t) IN
         [hit |-> r.val # Null, val |-> r.val, cache |-> r.cache]
    ELSE [hit |-> FALSE, val |-> Null, cache |-> m]

\* variant of CacheLookup: a fresh entry is a hit whatever it holds
CacheLookupByPresence(m, url, options, t) ==
    IF MethodOf(options) = GET
    THEN LET r == StoreGet(m, CacheKey(GET, url), t) IN
         [hit |-> MapHas(r.cache, CacheKey(GET, url)), val |-> r.val, cache |-> r.cache]
    ELSE [hit |-> FALSE, val |-> Null, cache |-> m]

\* lines 181-191: the cache lookup of a GET call; other methods skip it
CacheLookup(m, url, options, t) ==
    IF MethodOf(options) = GET
    THEN LET r == StoreGet(m, CacheKey(GET, url), t) IN
         [hit |-> r.val # Null, val |-> r.val, cache |-> r.cache]
    ELSE [hit |-> FALSE, val |-> Null, cache |-> m]

\* variant of CacheResponse: a key that is present is not written again
CacheResponseKeepFirst(m, c, data, t, dflt) ==
    IF MethodOf(c.options) = GET /\ ~MapHas(m, CallKey(c))
    THEN StoreSet(m, CallKey(c), data, c.cacheTTL, t, dflt)
    ELSE m

\* variant of CacheResponse: the response is stored whatever the method
CacheResponseAnyMethod(m, c, data, t, dflt) ==
    StoreSet(m, CallKey(c), data, c.cacheTTL, t, dflt)

\* lines 202-206: the store after a successful response has been decoded
CacheResponse(m, c, data, t, dflt) ==
    IF MethodOf(c.options) = GET
    THEN StoreSet(m, CallKey(c), data, c.cacheTTL, t, dflt)
    ELSE m

\* the call runs up to its first await, or returns the cached value; fetches
\* counts the invocations of fetch(url, options) the call has made
fetchWithCache(url, options, cacheTTL) ==
    LET l == CacheLookup(cache, url, options, now)
        c == [url |-> url, options |-> options, cacheTTL |-> cacheTTL,
              pc |-> IF l.hit THEN "returned" ELSE "fetch",
              requested |-> ~l.hit,
              fetches |-> IF l.hit THEN 0 ELSE 1,
              response |-> None,
              result |-> IF l.hit THEN Some(l.val) ELSE None]
    IN
    /\ cache' = l.cache
    /\ calls' = Append(calls, c)
    /\ ret' = Ret("fetchWithCache", EmptyStr)
    /\ UNCHANGED <<now, ctorArg, defaultTTL>>

\* variant of fetchResolved: a non-success response is stored as well
fetchResolvedCachingFailure(i, response) ==
    /\ i \in 1..Len(calls)
    /\ calls[i].pc = "fetch"
    /\ calls' = [calls EXCEPT ![i] =
                    IF ~response.ok
                    THEN [@ EXCEPT !.pc = "threw", !.response = Some(response),
                                   !.result = Some(HttpError(response.status))]
                    ELSE [@ EXCEPT !.pc = "json", !.response = Some(response)]]
    /\ cache' = IF ~response.ok
                THEN CacheResponse(cache, calls[i], "error", now, defaultTTL)
                ELSE cache
    /\ ret' = Ret("fetch.resolved", EmptyStr)
    /\ UNCHANGED <<now, ctorArg, defaultTTL>>

\* await fetch(url, options) resolves with a response
fetchResolved(i, response) ==
    /\ i \in 1..Len(calls)
    /\ calls[i].pc = "fetch"
    /\ calls' = [calls EXCEPT ![i] =
                    IF ~response.ok
                    THEN [@ EXCEPT !.pc = "threw", !.response = Some(response),
                                   !.result = Some(HttpError(response.status))]
                    ELSE [@ EXCEPT !.pc = "json", !.response = Some(response)]]
    /\ ret' = Ret("fetch.resolved", EmptyStr)
    /\ UNCHANGED <<now, ctorArg, defaultTTL, cache>>

\* variant of fetchRejected: a rejected request is issued once more
fetchRejectedRetrying(i) ==
    /\ i \in 1..Len(calls)
    /\ calls[i].pc = "fetch"
    /\ calls' = [calls EXCEPT ![i] =
                    IF @.fetches < 2
                    THEN [@ EXCEPT !.fetches = @ + 1]
                    ELSE [@ EXCEPT !.pc = "threw", !.result = Some(NetworkError)]]
    /\ ret' = Ret("fetch.rejected", EmptyStr)
    /\ UNCHANGED <<now, ctorArg, defaultTTL, cache>>

\* await fetch(url, options) rejects: the network failed
fetchRejected(i) ==
    /\ i \in 1..Len(calls)
    /\ calls[i].pc = "fetch"
    /\ calls' = [calls EXCEPT ![i] = [@ EXCEPT !.pc = "threw", !.result = Some(NetworkError)]]
    /\ ret' = Ret("fetch.rejected", EmptyStr)
    /\ UNCHANGED <<now, ctorArg, defaultTTL, cache>>

\* variant of jsonSettled: a body that cannot be decoded leaves the call waiting
jsonSettledUnlessMalformed(i) ==
    /\ i \in 1..Len(calls)
    /\ calls[i].pc = "json"
    /\ LET body == calls[i].response[1].body IN
       IF body = None
       THEN /\ calls' = calls
            /\ cache' = cache
       ELSE /\ calls' = [calls EXCEPT ![i] = [@ EXCEPT !.pc = "returned", !.result = Some(body[1])]]
            /\ cache' = CacheResponse(cache, calls[i], body[1], now, defaultTTL)
    /\ ret' = [Ret("json.settled", EmptyStr) EXCEPT !.num = i]
    /\ UNCHANGED <<now, ctorArg, defaultTTL>>

\* variant of jsonSettled: the body is stored before it is decoded
jsonSettledCachingRaw(i) ==
    /\ i \in 1..Len(calls)
    /\ calls[i].pc = "json"
    /\ LET body == calls[i].response[1].body IN
       IF body = None
       THEN /\ calls' = [calls EXCEPT ![i] = [@ EXCEPT !.pc = "threw", !.result = Some(ParseError)]]
            /\ cache' = CacheResponse(cache, calls[i], "raw", now, defaultTTL)
       ELSE /\ calls' = [calls EXCEPT ![i] = [@ EXCEPT !.pc = "returned", !.result = Some(body[1])]]
            /\ cache' = CacheResponse(cache, calls[i], body[1], now, defaultTTL)
    /\ ret' = [Ret("json.settled", EmptyStr) EXCEPT !.num = i]
    /\ UNCHANGED <<now, ctorArg, defaultTTL>>

\* await response.json() settles: the body is decoded, cached and returned, or
\* the parse error is thrown
jsonSettled(i) ==
    /\ i \in 1..Len(calls)
    /\ calls[i].pc = "json"
    /\ LET body == calls[i].response[1].body IN
       IF body = None
       THEN /\ calls' = [calls EXCEPT ![i] = [@ EXCEPT !.pc = "threw", !.result = Some(ParseError)]]
            /\ cache' = cache
       ELSE /\ calls' = [calls EXCEPT ![i] = [@ EXCEPT !.pc = "returned", !.result = Some(body[1])]]
            /\ cache' = CacheResponse(cache, calls[i], body[1], now, defaultTTL)
    /\ ret' = [Ret("json.settled", EmptyStr) EXCEPT !.num = i]
    /\ UNCHANGED <<now, ctorArg, defaultTTL>>

\* variant of Includes: the pattern must open the key
IncludesAtStart(key, pattern) ==
    Len(pattern) <= Len(key) /\ SubSeq(key, 1, Len(pattern)) = pattern

\* key.includes(pattern)
Includes(key, pattern) ==
    \E i \in 0..(Len(key) - Len(pattern)) : SubSeq(key, i + 1, i + Len(pattern)) = pattern

\* the part of a key after its first ":"
AfterMethod(key) ==
    IF \E i \in 1..Len(key) : key[i] = ":"
    THEN LET c == CHOOSE i \in 1..Len(key) : key[i] = ":" /\ \A j \in 1..(i - 1) : key[j] # ":"
         IN  SubSeq(key, c + 1, Len(key))
    ELSE key

\* variant of MatchedKeys: the pattern is looked for in the URL part of the key
MatchedUrls(m, pattern) ==
    LET Matched(key) == Includes(AfterMethod(key), pattern) IN SelectSeq(MapKeys(m), Matched)

\* keys.filter(key => key.includes(pattern)), in the order of the store
MatchedKeys(m, pattern) ==
    LET Matched(key) == Includes(key, pattern) IN SelectSeq(MapKeys(m), Matched)

\* the store after clearCacheByPattern(pattern): every matched key is deleted
ClearByPattern(m, pattern) ==
    LET matchedKeys == MatchedKeys(m, pattern)
        Unmatched(p) == ~\E k \in 1..Len(matchedKeys) : matchedKeys[k] = p[1]
    IN  SelectSeq(m, Unmatched)

\* the keys it deleted are the lines it logs
clearCacheByPattern(pattern) ==
    /\ cache' = ClearByPattern(cache, pattern)
    /\ ret' = [Ret("clearCacheByPattern", pattern) EXCEPT !.keys = MatchedKeys(cache, pattern)]
    /\ UNCHANGED <<now, ctorArg, defaultTTL, calls>>

\* the network requests issued so far for a key
Requests(key) == {i \in 1..Len(calls) : calls[i].requested /\ CallKey(calls[i]) = key}

----------------------------------------------------------------------------
(* The fetch wrapper: callers invoke fetchWithCache, the network answers   *)
(* in any order, the clock moves and the store is read and invalidated     *)
(* in between.                                                             *)

MaxCalls == 2

FetchUrls == {UrlAX}
FetchOptions == {[method |-> None], [method |-> Some(POST)]}
FetchTTLs == {Some(1)}
\* well-formed bodies (the JSON text null among them), a malformed one, and a
\* non-success status
FetchResponses ==
    {Response(200, Some("v1")), Response(200, Some("v2")), Response(200, Some(Null)),
     Response(200, None), Response(404, None)}
FetchClock == {0, 1, 2}
FetchKeys == {CacheKey(GET, u) : u \in FetchUrls}

InitFetch == Constructed(None, 0)

NextFetch ==
    \/ \E url \in FetchUrls, options \in FetchOptions, cacheTTL \in FetchTTLs :
          Len(calls) < MaxCalls /\ fetchWithCache(url, options, cacheTTL)
    \/ \E i \in 1..MaxCalls, response \in FetchResponses : fetchResolved(i, response)
    \/ \E i \in 1..MaxCalls : fetchRejected(i)
    \/ \E i \in 1..MaxCalls : jsonSettled(i)
    \/ \E key \in FetchKeys : get(key)
    \/ \E key \in FetchKeys : delete(key)
    \/ \E t \in FetchClock : Advance(t)

SpecFetch == InitFetch /\ [][NextFetch]_vars

----------------------------------------------------------------------------
(* Invalidation by pattern: the store is filled with GET keys, entries age *)
(* and clearCacheByPattern is applied.                                     *)

PatternKeys == {CacheKey(GET, UrlAX), CacheKey(GET, UrlAY), CacheKey(GET, UrlBZ)}
PatternData == {"v1", "v2"}
PatternTTLs == {Some(1)}
PatternClock == {0, 1, 2}
Patterns ==
    {<<"/", "a", "/">>, <<"/", "b", "/">>, <<"a", "/", "y">>, <<"z">>, <<"G", "E", "T", ":">>,
     <<"/", "/">>, <<"q">>, <<"x", "/">>, EmptyStr,
     CacheKey(GET, UrlAX), CacheKey(GET, UrlAX) \o <<"x">>}

InitPattern == Constructed(None, 0)

NextPattern ==
    \/ \E key \in PatternKeys, data \in PatternData, ttl \in PatternTTLs : set(key, data, ttl)
    \/ \E pattern \in Patterns : clearCacheByPattern(pattern)
    \/ \E key \in PatternKeys : delete(key)
    \/ clear
    \/ \E t \in PatternClock : Advance(t)

SpecPattern == InitPattern /\ [][NextPattern]_vars

----------------------------------------------------------------------------
(* The fetch wrapper with and without a cacheTTL of its own: calls with no  *)
(* cacheTTL, with cacheTTL 0 and with a positive cacheTTL, on the shared    *)
(* store with its default TTL.                                              *)

OverrideUrls == {UrlAX}
OverrideOptions == {[method |-> None], [method |-> Some(POST)]}
OverrideTTLs == {None, Some(0), Some(2)}
OverrideResponses == {Response(200, Some("v1")), Response(200, None), Response(500, None)}
OverrideClock == {0, 1, 3}

InitOverride == Constructed(None, 0)

NextOverride ==
    \/ \E url \in OverrideUrls, options \in OverrideOptions, cacheTTL \in OverrideTTLs :
          Len(calls) < MaxCalls /\ fetchWithCache(url, options, cacheTTL)
    \/ \E i \in 1..MaxCalls, response \in OverrideResponses : fetchResolved(i, response)
    \/ \E i \in 1..MaxCalls : fetchRejected(i)
    \/ \E i \in 1..MaxCalls : jsonSettled(i)
    \/ \E t \in OverrideClock : Advance(t)

SpecOverride == InitOverride /\ [][NextOverride]_vars

----------------------------------------------------------------------------
(* Key derivation: calls over one resource with two query strings,         *)
(* and with the method omitted, empty, GET, get and POST.                   *)

KeyUrls == {UrlAXQ1, UrlAXQ2}
KeyOptions ==
    {[method |-> None], [method |-> Some(EmptyStr)], [method |-> Some(GET)],
     [method |-> Some(LowerGet)], [method |-> Some(POST)]}
KeyTTLs == {None}
KeyResponses == {Response(200, Some("v1")), Response(200, Some("v2"))}

InitKeys == Constructed(None, 0)

NextKeys ==
    \/ \E url \in KeyUrls, options \in KeyOptions, cacheTTL \in KeyTTLs :
          Len(calls) < MaxCalls /\ fetchWithCache(url, options, cacheTTL)
    \/ \E i \in 1..MaxCalls, response \in KeyResponses : fetchResolved(i, response)
    \/ \E i \in 1..MaxCalls : jsonSettled(i)

SpecKeys == InitKeys /\ [][NextKeys]_vars

----------------------------------------------------------------------------
(* Calls in flight while the store is cleared, under a network that answers *)
(* or rejects every request and delivers every body: a call waiting at      *)
(* await fetch(...) or at await response.json() is resumed in the end.      *)

LiveUrls == {UrlAX}
LiveOptions == {[method |-> None], [method |-> Some(POST)]}
LiveTTLs == {None}
LiveResponses == {Response(200, Some("v1")), Response(200, None), Response(503, None)}

InitLive == Constructed(None, 0)

NextLive ==
    \/ \E url \in LiveUrls, options \in LiveOptions, cacheTTL \in LiveTTLs :
          Len(calls) < MaxCalls /\ fetchWithCache(url, options, cacheTTL)
    \/ \E i \in 1..MaxCalls, response \in LiveResponses : fetchResolved(i, response)
    \/ \E i \in 1..MaxCalls : fetchRejected(i)
    \/ \E i \in 1..MaxCalls : jsonSettled(i)
    \/ clear

\* every request is answered or rejected, every body read to its end
NetworkSettles ==
    \A i \in 1..MaxCalls :
        /\ WF_vars(\E response \in LiveResponses : fetchResolved(i, response) \/ fetchRejected(i))
        /\ WF_vars(jsonSettled(i))

SpecLive == InitLive /\ [][NextLive]_vars /\ NetworkSettles

----------------------------------------------------------------------------
(* Null payloads: the store is written with null and with a value, directly *)
(* and by GET calls whose body decodes to null, and is read back.           *)

NullUrls == {UrlAX}
NullKeys == {CacheKey(GET, u) : u \in NullUrls}
NullData == {Null, "v1"}
NullTTLs == {Some(1)}
NullOptions == {[method |-> None]}
NullResponses == {Response(200, Some(Null)), Response(200, Some("v1"))}
NullClock == {0, 1, 2}

InitNull == Constructed(None, 0)

NextNull ==
    \/ \E key \in NullKeys, data \in NullData, ttl \in NullTTLs : set(key, data, ttl)
    \/ \E key \in NullKeys : get(key)
    \/ \E key \in NullKeys : has(key)
    \/ size
    \/ \E url \in NullUrls, options \in NullOptions, cacheTTL \in NullTTLs :
          Len(calls) < MaxCalls /\ fetchWithCache(url, options, cacheTTL)
    \/ \E i \in 1..MaxCalls, response \in NullResponses : fetchResolved(i, response)
    \/ \E i \in 1..MaxCalls : jsonSettled(i)
    \/ \E t \in NullClock : Advance(t)

SpecNull == InitNull /\ [][NextNull]_vars

----------------------------------------------------------------------------
(* Invalidation with calls in flight: GET calls are issued and answered     *)
(* while keys are removed by delete, clear and clearCacheByPattern.         *)

InvalidateUrls == {UrlAX}
InvalidateKeys == {CacheKey(GET, u) : u \in InvalidateUrls}
InvalidateOptions == {[method |-> None]}
InvalidateTTLs == {None}
InvalidateResponses == {Response(200, Some("v1")), Response(200, Some("v2"))}
InvalidatePatterns == {<<"/", "a", "/">>, <<"/", "b", "/">>}

InitInvalidate == Constructed(None, 0)

NextInvalidate ==
    \/ \E url \in InvalidateUrls, options \in InvalidateOptions, cacheTTL \in InvalidateTTLs :
          Len(calls) < MaxCalls /\ fetchWithCache(url, options, cacheTTL)
    \/ \E i \in 1..MaxCalls, response \in InvalidateResponses : fetchResolved(i, response)
    \/ \E i \in 1..MaxCalls : jsonSettled(i)
    \/ \E key \in InvalidateKeys : delete(key)
    \/ clear
    \/ \E pattern \in InvalidatePatterns : clearCacheByPattern(pattern)

SpecInvalidate == InitInvalidate /\ [][NextInvalidate]_vars

----------------------------------------------------------------------------
(* Calls racing on one key: GET calls for one URL are in flight together,   *)
(* some succeed and some fail, and one more call comes after them.          *)

RaceUrls == {UrlAX}
RaceOptions == {[method |-> None]}
RaceTTLs == {None}
RaceResponses == {Response(200, Some("v1")), Response(200, Some(Null)), Response(200, None), Response(500, None)}

InitRace == Constructed(None, 0)

NextRace ==
    \/ \E url \in RaceUrls, options \in RaceOptions, cacheTTL \in RaceTTLs :
          Len(calls) < MaxCalls + 1 /\ fetchWithCache(url, options, cacheTTL)
    \/ \E i \in 1..(MaxCalls + 1), response \in RaceResponses : fetchResolved(i, response)
    \/ \E i \in 1..(MaxCalls + 1) : fetchRejected(i)
    \/ \E i \in 1..(MaxCalls + 1) : jsonSettled(i)

SpecRace == InitRace /\ [][NextRace]_vars

----------------------------------------------------------------------------
(* Every operation on one store: the store methods, clearCacheByPattern and *)
(* the fetch wrapper, with the clock moving.                                *)

FrameUrls == {UrlAX}
FrameKeys == {CacheKey(GET, u) : u \in FrameUrls} \cup {KeyK}
FrameData == {"v1"}
FrameTTLs == {Some(1)}
FrameOptions == {[method |-> None]}
FrameResponses == {Response(200, Some("v2")), Response(500, None)}
FramePatterns == {<<"/", "a", "/">>}
FrameClock == {0, 1, 2}

InitFrame == Constructed(None, 0)

NextFrame ==
    \/ \E key \in FrameKeys, data \in FrameData, ttl \in FrameTTLs : set(key, data, ttl)
    \/ \E key \in FrameKeys : get(key)
    \/ \E key \in FrameKeys : has(key)
    \/ \E key \in FrameKeys : delete(key)
    \/ clear
    \/ clearExpired
    \/ size
    \/ getStats
    \/ \E pattern \in FramePatterns : clearCacheByPattern(pattern)
    \/ \E url \in FrameUrls, options \in FrameOptions, cacheTTL \in FrameTTLs :
          Len(calls) < MaxCalls /\ fetchWithCache(url, options, cacheTTL)
    \/ \E i \in 1..MaxCalls, response \in FrameResponses : fetchResolved(i, response)
    \/ \E i \in 1..MaxCalls : jsonSettled(i)
    \/ \E t \in FrameClock : Advance(t)

SpecFrame == InitFrame /\ [][NextFrame]_vars

----------------------------------------------------------------------------
(* Calls that differ in their headers: GET calls for one URL are made with  *)
(* no headers and on behalf of two users, and the server answers each       *)
(* request with the payload of the user its headers name.                   *)

HeaderUrls == {UrlAX}
HeaderOptions ==
    {[method |-> None, headers |-> None],
     [method |-> None, headers |-> Some("alice")],
     [method |-> Some(GET), headers |-> Some("bob")]}
HeaderTTLs == {None}

\* what fetch(url, options) resolves to for a request with these options
ResponseFor(options) ==
    Response(200, Some(IF options.headers = None THEN "public" ELSE options.headers[1]))

InitHeaders == Constructed(None, 0)

NextHeaders ==
    \/ \E url \in HeaderUrls, options \in HeaderOptions, cacheTTL \in HeaderTTLs :
          Len(calls) < MaxCalls /\ fetchWithCache(url, options, cacheTTL)
    \/ \E i \in 1..MaxCalls :
          i <= Len(calls) /\ fetchResolved(i, ResponseFor(calls[i].options))
    \/ \E i \in 1..MaxCalls : jsonSettled(i)
    \/ \E key \in {CacheKey(GET, u) : u \in HeaderUrls} : delete(key)

SpecHeaders == InitHeaders /\ [][NextHeaders]_vars

----------------------------------------------------------------------------
(* Properties of the store *)

\* the item stored under key; used where the key is present
ItemOf(m, key) == MapGet(m, key)[1]

\* the time an item was given to live when it was written
LifetimeOf(item) == item.expiresAt - item.timestamp

\* C1, as stated: a value stored with a ttl > 0 at time t0 is returned by get at
\* every time t0 + t with t < ttl, and get returns null at every time t0 + t
\* with t >= ttl, t = ttl included.
C1_ExpiresAtTTL ==
    [][\A key \in StoreKeys :
          (get(key) /\ MapHas(cache, key) /\ LifetimeOf(ItemOf(cache, key)) > 0) =>
              LET item == ItemOf(cache, key)
                  t == now - item.timestamp
              IN /\ t < LifetimeOf(item) => ret'.val = item.data
                 /\ t >= LifetimeOf(item) => ret'.val = Null]_vars

\* C1, amended: a value stored with a ttl > 0 at time t0 is returned by get at
\* every time t0 + t with t <= ttl, and get returns null at every time t0 + t
\* with t > ttl: the entry is still served at exactly t = ttl.
C1_ExpiresAfterTTL ==
    [][\A key \in StoreKeys :
          (get(key) /\ MapHas(cache, key) /\ LifetimeOf(ItemOf(cache, key)) > 0) =>
              LET item == ItemOf(cache, key)
                  t == now - item.timestamp
              IN /\ t <= LifetimeOf(item) => ret'.val = item.data
                 /\ t > LifetimeOf(item) => ret'.val = Null]_vars

\* get has just served a value at exactly t = ttl after the write
C1_ServedAtTTL ==
    /\ ret.op = "get"
    /\ ret.val # Null
    /\ MapHas(cache, ret.key)
    /\ ItemOf(cache, ret.key).timestamp < now
    /\ ItemOf(cache, ret.key).expiresAt = now
    /\ ret.val = ItemOf(cache, ret.key).data

\* C8, as stated: set(key, value, ttl) stores the entry with expiresAt = now + ttl
\* for every ttl that is supplied, ttl = 0 included, uses the default TTL only
\* when ttl is omitted, and records the time of the write as the creation time.
C8_SuppliedTTLUsed ==
    [][\A key \in StoreKeys, data \in StoreData, ttl \in StoreTTLs :
          set(key, data, ttl) =>
              /\ MapHas(cache', key)
              /\ ItemOf(cache', key).data = data
              /\ ItemOf(cache', key).timestamp = now
              /\ ItemOf(cache', key).expiresAt =
                    now + (IF ttl = None THEN defaultTTL ELSE ttl[1])]_vars

\* C9: a set on a key that is present replaces the value and computes expiresAt
\* from the time of this write and its effective TTL, whatever the old expiry
\* was; the store still holds exactly one entry for the key, in the same place,
\* and the other entries are untouched.
C9_Overwrite ==
    [][\A key \in StoreKeys :
          (ret' = Ret("set", key) /\ MapHas(cache, key)) =>
          \A data \in StoreData, ttl \in StoreTTLs :
          set(key, data, ttl) =>
              /\ Len(cache') = Len(cache)
              /\ Cardinality({i \in 1..Len(cache') : cache'[i][1] = key}) = 1
              /\ ItemOf(cache', key).data = data
              /\ ItemOf(cache', key).timestamp = now
              /\ ItemOf(cache', key).expiresAt = now + EffectiveTTL(ttl, defaultTTL)
              /\ \A i \in 1..Len(cache) :
                    IF cache[i][1] = key THEN cache'[i][1] = key ELSE cache'[i] = cache[i]]_vars

\* set has just rewritten the first key of the store after the second key was
\* written, with an expiry earlier than the second key's
C9_Overwritten ==
    /\ ret.op = "set"
    /\ Len(cache) = 2
    /\ ret.key = cache[1][1]
    /\ cache[1][2].timestamp = now
    /\ cache[1][2].timestamp > cache[2][2].timestamp
    /\ cache[1][2].expiresAt < cache[2][2].expiresAt

\* C10: a get that finds an expired entry returns null and removes that entry
\* and no other, so that getStats no longer lists the key and size is one less
\* than before the read; with a default TTL of 1000 ms an entry set at t = 0
\* without ttl is served at t = 500 and is missed and removed at t = 1500.
C10_LazyPurge ==
    [][\A key \in StoreKeys :
          (get(key) /\ MapHas(cache, key)) =>
              LET item == ItemOf(cache, key) IN
              /\ now > item.expiresAt =>
                    /\ ret'.val = Null
                    /\ ~MapHas(cache', key)
                    /\ StoreStats(cache').size = Len(cache) - 1
                    /\ \A i \in 1..Len(StoreStats(cache').keys) : StoreStats(cache').keys[i] # key
                    /\ \A other \in StoreKeys \ {key} : MapGet(cache', other) = MapGet(cache, other)
              /\ (defaultTTL = 1000 /\ item.timestamp = 0 /\ item.expiresAt = 1000) =>
                    /\ now = 500 => (ret'.val = item.data /\ cache' = cache)
                    /\ now = 1500 => (ret'.val = Null /\ Len(cache') = Len(cache) - 1)]_vars

\* in a store whose default TTL is 1000 ms, get("k") at t = 1500 has just
\* returned null and "k" is gone, while the stale entry of "j", which was not
\* read, is still counted
C10_Purged ==
    /\ defaultTTL = 1000
    /\ now = 1500
    /\ ret.op = "get" /\ ret.key = KeyK /\ ret.val = Null
    /\ ~MapHas(cache, KeyK)
    /\ MapHas(cache, KeyJ)
    /\ ItemOf(cache, KeyJ).expiresAt = 1000

----------------------------------------------------------------------------
(* Properties of the fetch wrapper *)

\* the call that a fetchWithCache step has just added
NewCall == calls'[Len(calls')]

\* C2: get returns the stored value exactly when an entry for the key exists and
\* now <= expiresAt at the moment of the read, and null otherwise; a value served
\* as a cache hit by fetchWithCache is the value of an entry with
\* now <= expiresAt, and such a call issues no request.
C2_FreshOnly ==
    [][/\ \A key \in FetchKeys :
             get(key) =>
                 IF MapHas(cache, key) /\ now <= ItemOf(cache, key).expiresAt
                 THEN ret'.val = ItemOf(cache, key).data
                 ELSE ret'.val = Null
       /\ \A url \in FetchUrls, options \in FetchOptions, cacheTTL \in FetchTTLs :
             (fetchWithCache(url, options, cacheTTL) /\ NewCall.pc = "returned") =>
                 LET key == CacheKey(GET, url) IN
                 /\ MethodOf(options) = GET
                 /\ MapHas(cache, key)
                 /\ now <= ItemOf(cache, key).expiresAt
                 /\ NewCall.result = Some(ItemOf(cache, key).data)
                 /\ ~NewCall.requested]_vars

\* a call has just been served from an entry that is at its expiry time
C2_HitAtExpiry ==
    /\ ret.op = "fetchWithCache"
    /\ calls[Len(calls)].pc = "returned"
    /\ ~calls[Len(calls)].requested
    /\ MapHas(cache, CallKey(calls[Len(calls)]))
    /\ ItemOf(cache, CallKey(calls[Len(calls)])).expiresAt = now
    /\ ItemOf(cache, CallKey(calls[Len(calls)])).timestamp < now

\* C3, as stated: when fetchWithCache is called for a GET URL after an earlier
\* call for it has fetched and returned a payload, whatever that payload is, and
\* the entry has not expired or been deleted since, the second call issues no
\* request (one request in total) and returns the value the first returned.
C3_Memoized ==
    [][\A url \in FetchUrls, options \in FetchOptions, cacheTTL \in FetchTTLs :
          (ret' = Ret("fetchWithCache", EmptyStr) /\ MethodOf(options) = GET
              /\ fetchWithCache(url, options, cacheTTL)) =>
          LET key == CacheKey(GET, url) IN
          \A i \in 1..Len(calls) :
              (/\ Requests(key) = {i}
               /\ calls[i].pc = "returned"
               /\ MapHas(cache, key)
               /\ now <= ItemOf(cache, key).expiresAt) =>
                  /\ NewCall.pc = "returned"
                  /\ NewCall.result = calls[i].result
                  /\ ~NewCall.requested
                  /\ (Requests(key))' = {i}]_vars

\* the same for the payloads other than null, which the code does memoize
C3_MemoizedUnlessNull ==
    [][\A url \in FetchUrls, options \in FetchOptions, cacheTTL \in FetchTTLs :
          (ret' = Ret("fetchWithCache", EmptyStr) /\ MethodOf(options) = GET
              /\ fetchWithCache(url, options, cacheTTL)) =>
          LET key == CacheKey(GET, url) IN
          \A i \in 1..Len(calls) :
              (/\ Requests(key) = {i}
               /\ calls[i].pc = "returned"
               /\ calls[i].result # Some(Null)
               /\ MapHas(cache, key)
               /\ now <= ItemOf(cache, key).expiresAt) =>
                  /\ NewCall.pc = "returned"
                  /\ NewCall.result = calls[i].result
                  /\ ~NewCall.requested
                  /\ (Requests(key))' = {i}]_vars

\* C4: a GET call for a key that is not in the store issues a request of its own
\* even while another call for the same key is in flight, and when a GET call
\* decodes its response after another call for the same key has already
\* returned its own, the store holds the response of the call that resolved
\* last, whichever of the two was issued first.
C4_NoSingleFlight ==
    [][/\ \A url \in FetchUrls, options \in FetchOptions, cacheTTL \in FetchTTLs :
             (ret' = Ret("fetchWithCache", EmptyStr) /\ MethodOf(options) = GET
                 /\ fetchWithCache(url, options, cacheTTL)
                 /\ ~MapHas(cache, CacheKey(GET, url))
                 /\ \E j \in 1..Len(calls) :
                       /\ CallKey(calls[j]) = CacheKey(GET, url)
                       /\ calls[j].pc \in {"fetch", "json"}) =>
                 /\ NewCall.pc = "fetch"
                 /\ NewCall.requested
                 /\ (Requests(CacheKey(GET, url)))' = Requests(CacheKey(GET, url)) \cup {Len(calls')}
       /\ \A i \in 1..Len(calls) :
             (ret'.op = "json.settled" /\ jsonSettled(i) /\ calls'[i].pc = "returned"
                 /\ MethodOf(calls[i].options) = GET) =>
             \A j \in 1..Len(calls) :
                 (j # i /\ CallKey(calls[j]) = CallKey(calls[i])
                     /\ calls[j].requested /\ calls[j].pc = "returned") =>
                     /\ MapHas(cache', CallKey(calls[i]))
                     /\ ItemOf(cache', CallKey(calls[i])).data = calls'[i].result[1]
                     /\ ItemOf(cache', CallKey(calls[i])).timestamp = now]_vars

\* two calls for one key were in flight together; the second one issued
\* returned first, the first one issued has just returned a different payload,
\* and the store holds the payload of the first one issued
C4_LastResolvedWins ==
    /\ Len(calls) >= 2
    /\ ret.op = "json.settled" /\ ret.num = 1
    /\ CallKey(calls[1]) = CallKey(calls[2])
    /\ MethodOf(calls[1].options) = GET
    /\ calls[1].requested /\ calls[2].requested
    /\ calls[1].pc = "returned" /\ calls[2].pc = "returned"
    /\ calls[1].result # calls[2].result
    /\ MapHas(cache, CallKey(calls[1]))
    /\ Some(ItemOf(cache, CallKey(calls[1])).data) = calls[1].result

\* no call for the key has fetched and returned, and one has failed on a
\* non-success status
OnlyFailures(key) ==
    /\ \E i \in 1..Len(calls) :
          /\ CallKey(calls[i]) = key
          /\ calls[i].pc = "threw"
          /\ calls[i].response # None
          /\ ~calls[i].response[1].ok
    /\ \A i \in 1..Len(calls) :
          CallKey(calls[i]) = key => ~(calls[i].requested /\ calls[i].pc = "returned")

\* C5: a call whose request is answered with a non-success status fails with an
\* error carrying that status and leaves the store as it was; while the only
\* outcomes for a GET key are such failures, get on the key returns null and
\* fetchWithCache for the URL issues a new request.
C5_FailureNotCached ==
    [][/\ \A i \in 1..Len(calls), response \in FetchResponses :
             (ret'.op = "fetch.resolved" /\ ~response.ok /\ fetchResolved(i, response)) =>
                 /\ calls'[i].pc = "threw"
                 /\ calls'[i].result # None
                 /\ calls'[i].result[1].name = "Error"
                 /\ calls'[i].result[1].status = response.status
                 /\ cache' = cache
       /\ \A key \in FetchKeys :
             (OnlyFailures(key) /\ get(key)) => (ret'.val = Null /\ cache' = cache)
       /\ \A url \in FetchUrls, options \in FetchOptions, cacheTTL \in FetchTTLs :
             (ret' = Ret("fetchWithCache", EmptyStr) /\ MethodOf(options) = GET
                 /\ OnlyFailures(CacheKey(GET, url))
                 /\ fetchWithCache(url, options, cacheTTL)) =>
                 /\ NewCall.pc = "fetch"
                 /\ NewCall.requested
                 /\ NewCall.result = None
                 /\ cache' = cache]_vars

\* the first GET call failed with status 404 and the next call for the same URL
\* has just issued a request of its own
C5_RefetchedAfterFailure ==
    /\ Len(calls) = 2
    /\ ret.op = "fetchWithCache"
    /\ MethodOf(calls[1].options) = GET
    /\ CallKey(calls[1]) = CallKey(calls[2])
    /\ calls[1].pc = "threw"
    /\ calls[1].result = Some(HttpError(404))
    /\ calls[2].pc = "fetch" /\ calls[2].requested
    /\ cache = <<>>

\* C6: a call whose method is not GET issues a request whatever the store
\* holds, and no step of such a call (its start, its response, its rejection,
\* its decoding) changes the store: the entry for the same URL under the GET
\* key included, it is the same before and after.
C6_NonGetBypass ==
    [][/\ \A url \in FetchUrls, options \in FetchOptions, cacheTTL \in FetchTTLs :
             (ret' = Ret("fetchWithCache", EmptyStr) /\ MethodOf(options) # GET
                 /\ fetchWithCache(url, options, cacheTTL)) =>
                 /\ NewCall.pc = "fetch"
                 /\ NewCall.requested
                 /\ cache' = cache
       /\ \A i \in 1..Len(calls) :
             (/\ MethodOf(calls[i].options) # GET
              /\ \/ ret'.op = "json.settled" /\ jsonSettled(i)
                 \/ ret'.op = "fetch.rejected" /\ fetchRejected(i)
                 \/ ret'.op = "fetch.resolved"
                       /\ \E response \in FetchResponses : fetchResolved(i, response)) =>
                 cache' = cache]_vars

\* a POST call has just returned its payload while the entry of the same URL
\* under the GET key, written by an earlier GET call, sits expired in the store
C6_PostReturned ==
    /\ Len(calls) = 2
    /\ ret.op = "json.settled" /\ ret.num = 2
    /\ calls[1].options.method = None /\ calls[1].pc = "returned" /\ calls[1].requested
    /\ calls[2].options.method = Some(POST) /\ calls[2].pc = "returned"
    /\ calls[2].url = calls[1].url
    /\ MapKeys(cache) = <<CacheKey(GET, calls[2].url)>>
    /\ now > ItemOf(cache, CacheKey(GET, calls[2].url)).expiresAt
    /\ Some(ItemOf(cache, CacheKey(GET, calls[2].url)).data) = calls[1].result
    /\ calls[2].result # calls[1].result

----------------------------------------------------------------------------
(* Properties of invalidation by pattern *)

\* pattern occurs in key at some position, character by character
Contains(key, pattern) ==
    \E i \in 1..(Len(key) + 1) :
        /\ i + Len(pattern) - 1 <= Len(key)
        /\ \A j \in 1..Len(pattern) : key[i + j - 1] = pattern[j]

\* C7: clearCacheByPattern(pattern) removes exactly the entries whose key contains
\* pattern as a plain substring, fresh or stale, and leaves every other entry in
\* place with its value and expiry; when no key matches, the store is unchanged;
\* with the keys GET:https://a/x, GET:https://a/y and GET:https://b/z stored,
\* the pattern /a/ leaves exactly the third.
C7_PatternSelective ==
    [][\A pattern \in Patterns :
          (ret'.op = "clearCacheByPattern" /\ ret'.key = pattern /\ clearCacheByPattern(pattern)) =>
              /\ \A key \in PatternKeys :
                    MapGet(cache', key) =
                        IF Contains(key, pattern) THEN None ELSE MapGet(cache, key)
              /\ Len(cache') = Cardinality({key \in PatternKeys : MapHas(cache', key)})
              /\ (\A key \in PatternKeys : MapHas(cache, key) => ~Contains(key, pattern)) =>
                    cache' = cache
              /\ (pattern = <<"/", "a", "/">> /\ Len(cache) = 3) =>
                    MapKeys(cache') = <<CacheKey(GET, UrlBZ)>>]_vars

\* clearCacheByPattern("/a/") has just run and of the keys only GET:https://b/z
\* is left, its entry expired and still in the store
C7_OnlyBZLeft ==
    /\ ret.op = "clearCacheByPattern" /\ ret.key = <<"/", "a", "/">>
    /\ MapKeys(cache) = <<CacheKey(GET, UrlBZ)>>
    /\ now > ItemOf(cache, CacheKey(GET, UrlBZ)).expiresAt

----------------------------------------------------------------------------
(* Further properties of the store *)

\* what get is to return for key in store m at time t, read off the entry
Expected(m, key, t) ==
    IF MapHas(m, key) /\ t <= ItemOf(m, key).expiresAt THEN ItemOf(m, key).data ELSE Null

C16_ClearExpired ==
    [][(ret'.op = "clearExpired" /\ clearExpired) =>
          /\ \A key \in StoreKeys :
                MapGet(cache', key) =
                    IF MapHas(cache, key) /\ now > ItemOf(cache, key).expiresAt
                    THEN None
                    ELSE MapGet(cache, key)
          /\ \A i \in 1..Len(cache') : now <= cache'[i][2].expiresAt
          /\ \A i, j \in 1..Len(cache') :
                i < j => MapIndex(cache, cache'[i][1]) < MapIndex(cache, cache'[j][1])]_vars

\* clearExpired() has just run: of two entries the one at its expiry time is
\* the one left
C16_KeptAtExpiry ==
    /\ ret.op = "clearExpired"
    /\ Len(cache) = 1
    /\ cache[1][2].timestamp < now
    /\ cache[1][2].expiresAt = now

\* C17: size() returns the number of keys in the store, getStats() returns that
\* number and the keys in insertion order, expired entries that have not been
\* purged are counted, and neither operation changes the store.
C17_RawCount ==
    [][/\ (ret'.op = "size" /\ size) =>
             /\ ret'.num = Cardinality({key \in StoreKeys : MapHas(cache, key)})
             /\ cache' = cache
       /\ (ret'.op = "getStats" /\ getStats) =>
             /\ ret'.num = Cardinality({key \in StoreKeys : MapHas(cache, key)})
             /\ Len(ret'.keys) = ret'.num
             /\ \A i \in 1..Len(cache) : ret'.keys[i] = cache[i][1]
             /\ cache' = cache]_vars

\* size() has just returned 2 while both entries are expired
C17_CountsExpired ==
    /\ ret.op = "size"
    /\ ret.num = 2
    /\ \A i \in 1..Len(cache) : now > cache[i][2].expiresAt

\* C18: delete(key) removes the entry for key, fresh or expired, does nothing
\* when the key is absent, and leaves the other entries as they were.
C18_Delete ==
    [][\A key \in StoreKeys :
          (ret' = Ret("delete", key) /\ delete(key)) =>
              /\ ~MapHas(cache', key)
              /\ \A other \in StoreKeys \ {key} : MapGet(cache', other) = MapGet(cache, other)
              /\ Len(cache') = Len(cache) - (IF MapHas(cache, key) THEN 1 ELSE 0)
              /\ ~MapHas(cache, key) => cache' = cache]_vars

\* delete("k") has just run; "j", expired, is the one entry in the store
C18_OtherKept ==
    /\ ret = Ret("delete", KeyK)
    /\ MapKeys(cache) = <<KeyJ>>
    /\ now > ItemOf(cache, KeyJ).expiresAt

\* C19: a store constructed without an argument has a default TTL of 300000 ms
\* and one constructed with d has d; a set that omits ttl stores
\* expiresAt = now + that default.
C19_DefaultTTL ==
    [][/\ defaultTTL = (IF ctorArg = None THEN 300000 ELSE ctorArg[1])
       /\ \A key \in StoreKeys :
             ret' = Ret("set", key) =>
             \A data \in StoreData :
                 set(key, data, None) =>
                     ItemOf(cache', key).expiresAt =
                         now + (IF ctorArg = None THEN 300000 ELSE ctorArg[1])]_vars

\* set without ttl has just stored an entry that expires 300000 ms later in a
\* store constructed without an argument
C19_FiveMinuteEntry ==
    /\ ctorArg = None
    /\ ret.op = "set"
    /\ now = 500
    /\ ItemOf(cache, ret.key).timestamp = 500
    /\ ItemOf(cache, ret.key).expiresAt = 300500

----------------------------------------------------------------------------
(* Further properties of the fetch wrapper *)

\* no call for the key has fetched and returned, and one has failed to decode
\* a success response
OnlyDecodeFailures(key) ==
    /\ \E i \in 1..Len(calls) :
          /\ CallKey(calls[i]) = key
          /\ calls[i].pc = "threw"
          /\ calls[i].result = Some(ParseError)
    /\ \A i \in 1..Len(calls) :
          CallKey(calls[i]) = key => ~(calls[i].requested /\ calls[i].pc = "returned")

\* C12: when the body of a success response cannot be parsed, the call fails
\* with the parse error and the store is left as it was; while the only outcomes
\* for a GET key are such failures, the next call for the URL issues a new
\* request.
C12_DecodeFailureNotCached ==
    [][/\ \A i \in 1..Len(calls) :
             (ret'.op = "json.settled" /\ jsonSettled(i) /\ calls[i].response[1].body = None) =>
                 /\ calls[i].response[1].ok
                 /\ calls'[i].pc = "threw"
                 /\ calls'[i].result # None
                 /\ calls'[i].result[1].name = "SyntaxError"
                 /\ cache' = cache
       /\ \A url \in FetchUrls, options \in FetchOptions, cacheTTL \in FetchTTLs :
             (ret' = Ret("fetchWithCache", EmptyStr) /\ MethodOf(options) = GET
                 /\ OnlyDecodeFailures(CacheKey(GET, url))
                 /\ fetchWithCache(url, options, cacheTTL)) =>
                 /\ NewCall.pc = "fetch"
                 /\ NewCall.requested
                 /\ cache' = cache]_vars

\* the first GET call failed to decode a 200 response and the next call for the
\* same URL has just issued a request of its own; the store is empty
C12_RefetchedAfterDecodeFailure ==
    /\ Len(calls) = 2
    /\ ret.op = "fetchWithCache"
    /\ MethodOf(calls[1].options) = GET
    /\ CallKey(calls[1]) = CallKey(calls[2])
    /\ calls[1].pc = "threw"
    /\ calls[1].response = Some(Response(200, None))
    /\ calls[1].result = Some(ParseError)
    /\ calls[2].pc = "fetch" /\ calls[2].requested
    /\ cache = <<>>

\* C15: a call makes no request when it is a GET served from the store and one
\* request otherwise; no later step adds a request to any call; a non-success
\* status, a rejection and a decode failure each end the call with the error at
\* once, and a call that has ended does not change again.
C15_NoRetry ==
    [][/\ \A url \in FetchUrls, options \in FetchOptions, cacheTTL \in FetchTTLs :
             (ret' = Ret("fetchWithCache", EmptyStr)
                 /\ fetchWithCache(url, options, cacheTTL)) =>
                 /\ NewCall.fetches =
                       IF MethodOf(options) = GET /\ Expected(cache, CacheKey(GET, url), now) # Null
                       THEN 0
                       ELSE 1
                 /\ NewCall.fetches = 0 <=> NewCall.pc = "returned"
       /\ \A i \in 1..Len(calls) :
             /\ calls'[i].fetches = calls[i].fetches
             /\ calls[i].fetches <= 1
             /\ calls[i].pc \in {"returned", "threw"} => calls'[i] = calls[i]
             /\ (ret'.op = "fetch.rejected" /\ fetchRejected(i)) =>
                   (calls'[i].pc = "threw" /\ calls'[i].result = Some(NetworkError))
             /\ (ret'.op = "fetch.resolved" /\ calls[i].pc = "fetch" /\ calls'[i].response # None
                     /\ ~calls'[i].response[1].ok) =>
                   calls'[i].pc = "threw"
             /\ (ret'.op = "json.settled" /\ jsonSettled(i) /\ calls[i].response[1].body = None) =>
                   calls'[i].pc = "threw"]_vars

\* three ways to fail, one request each: the first call was rejected and the
\* second has just failed to decode, or got a non-success status
C15_FailedOnce ==
    /\ Len(calls) = 2
    /\ calls[1].pc = "threw" /\ calls[1].result = Some(NetworkError) /\ calls[1].fetches = 1
    /\ calls[2].pc = "threw" /\ calls[2].result \in {Some(ParseError), Some(HttpError(404))}
    /\ calls[2].fetches = 1

\* what a step does to the store, by the rule "only a GET call that decodes a
\* success response writes, under method + ":" + url, with expiresAt = (time of
\* the write) + cacheTTL when given, + the default TTL otherwise"; the expiry
\* of calls whose cacheTTL is in exempt is left open
WritesOnlySuccessfulGet(exempt) ==
    /\ \A i \in 1..Len(calls) :
          (ret'.op = "json.settled" /\ ret'.num = i /\ jsonSettled(i)) =>
              LET c == calls[i]
                  key == GET \o Colon \o c.url
                  body == c.response[1].body
              IN  IF MethodOf(c.options) = GET /\ body # None
                  THEN /\ c.response[1].ok
                       /\ calls'[i].result = Some(body[1])
                       /\ MapHas(cache', key)
                       /\ ItemOf(cache', key).data = body[1]
                       /\ ItemOf(cache', key).timestamp = now
                       /\ c.cacheTTL \notin exempt =>
                             ItemOf(cache', key).expiresAt =
                                now + (IF c.cacheTTL = None THEN defaultTTL ELSE c.cacheTTL[1])
                  ELSE cache' = cache
    /\ ret'.op \in {"fetch.resolved", "fetch.rejected"} => cache' = cache
    /\ ret'.op = "fetchWithCache" =>
          \A k \in 1..Len(cache') :
              MapHas(cache, cache'[k][1]) /\ ItemOf(cache, cache'[k][1]) = cache'[k][2]

\* C11, as stated: the store is written only when a GET call decodes a success
\* response: the payload is then stored under method + ":" + url with
\* expiresAt = (time of the write) + cacheTTL when a cacheTTL was given and
\* + the default TTL when none was given; a non-GET call, a failed call and
\* every other step of a call add nothing to the store.
C11_SuccessfulGetStored == [][WritesOnlySuccessfulGet({})]_vars

\* the same with the calls given cacheTTL 0 set aside: their entries get the
\* default TTL (C8), every other call's entry expires as C11 says
C11_StoredUnlessZeroTTL == [][WritesOnlySuccessfulGet({Some(0)})]_vars

\* a call issued at time 0 with cacheTTL 2 was stored at time 1: the entry
\* expires at 3
C11_ExpiryFromWrite ==
    /\ ret.op = "json.settled"
    /\ calls[ret.num].cacheTTL = Some(2)
    /\ MapHas(cache, CallKey(calls[ret.num]))
    /\ ItemOf(cache, CallKey(calls[ret.num])).timestamp = 1
    /\ ItemOf(cache, CallKey(calls[ret.num])).expiresAt = 3

\* C14: the key of a call is its method, ":" and its url, with GET for an
\* omitted or empty method; two calls have the same key exactly when they have
\* the same method and the same url, so calls that differ in the query string
\* or in the method have different keys. In the store: every entry is under
\* "GET:" + url of a GET call that fetched that url, and a call served from the
\* store is served what a GET call for the very same url stored.
C14_KeyDerivation ==
    /\ \A i \in 1..Len(calls), j \in 1..Len(calls) :
          LET ci == calls[i]
              cj == calls[j]
              mi == IF ci.options.method \in {None, Some(EmptyStr)} THEN GET ELSE ci.options.method[1]
              mj == IF cj.options.method \in {None, Some(EmptyStr)} THEN GET ELSE cj.options.method[1]
          IN  /\ CallKey(ci) = mi \o <<":">> \o ci.url
              /\ (mi = mj /\ ci.url = cj.url) => CallKey(ci) = CallKey(cj)
              /\ (mi # mj \/ ci.url # cj.url) => CallKey(ci) # CallKey(cj)
    /\ \A k \in 1..Len(cache) :
          \E i \in 1..Len(calls) :
              /\ MethodOf(calls[i].options) = GET
              /\ calls[i].requested /\ calls[i].pc = "returned"
              /\ cache[k][1] = <<"G", "E", "T", ":">> \o calls[i].url
              /\ Some(cache[k][2].data) = calls[i].result
    /\ \A i \in 1..Len(calls) :
          (calls[i].pc = "returned" /\ ~calls[i].requested) =>
              /\ MethodOf(calls[i].options) = GET
              /\ \E j \in 1..(i - 1) :
                    /\ calls[j].url = calls[i].url
                    /\ MethodOf(calls[j].options) = GET
                    /\ calls[j].requested /\ calls[j].pc = "returned"
                    /\ calls[j].result = calls[i].result

\* two GET calls that differ in the query string only have each fetched and
\* stored under a key of their own
C14_TwoQueriesTwoEntries ==
    /\ Len(calls) = 2
    /\ calls[1].url = UrlAXQ1 /\ calls[2].url = UrlAXQ2
    /\ calls[1].options.method = None /\ calls[2].options.method = Some(EmptyStr)
    /\ calls[1].pc = "returned" /\ calls[2].pc = "returned"
    /\ calls[1].requested /\ calls[2].requested
    /\ Len(cache) = 2
    /\ cache[1][1] # cache[2][1]

Pending(i) == i <= Len(calls) /\ calls[i].pc \in {"fetch", "json"}
Finished(i) == i <= Len(calls) /\ calls[i].pc \in {"returned", "threw"}

\* C20: a call that has issued its request is changed by nothing but the
\* outcome of its own request (no operation of the store or of the wrapper ends
\* or alters it); it has finished only once its request was answered or
\* rejected, with the decoded payload or with an error; and under a network
\* that settles every request, every waiting call finishes in the end.
C20_Completion ==
    /\ [][\A i \in 1..Len(calls) :
             (Pending(i) /\ calls'[i] # calls[i]) =>
                 /\ ret'.op \in {"fetch.resolved", "fetch.rejected", "json.settled"}
                 /\ calls'[i].url = calls[i].url
                 /\ calls'[i].options = calls[i].options]_vars
    /\ [](\A i \in 1..Len(calls) :
             (Finished(i) /\ calls[i].requested) =>
                 /\ calls[i].result # None
                 /\ \/ calls[i].response # None
                    \/ calls[i].pc = "threw" /\ calls[i].result = Some(NetworkError)
                 /\ calls[i].pc = "returned" =>
                       /\ calls[i].response[1].ok
                       /\ calls[i].response[1].body = calls[i].result)
    /\ \A i \in 1..MaxCalls : Pending(i) ~> Finished(i)

\* both calls issued a request and have finished, a GET with its payload and
\* the other with an error, and the store has been cleared since
C20_BothFinished ==
    /\ Len(calls) = 2
    /\ MethodOf(calls[1].options) = GET
    /\ calls[1].requested /\ calls[1].pc = "returned" /\ calls[1].result = Some("v1")
    /\ calls[2].requested /\ calls[2].pc = "threw"
    /\ cache = <<>>

----------------------------------------------------------------------------
(* Properties of the store and the wrapper together *)

\* the key holds null in an entry that has not expired at time t
FreshNull(m, key, t) ==
    /\ MapHas(m, key)
    /\ ~(t > ItemOf(m, key).expiresAt)
    /\ ItemOf(m, key).data = Null

Invalidations == {"delete", "clear", "clearCacheByPattern"}

\* C22: delete, clear and clearCacheByPattern leave every call as it is, the
\* ones waiting for the network included; and a GET call that decodes its
\* response writes it into the store whether or not its key is still there, so
\* that a key that was removed is present again, with what that call fetched,
\* without any new call.
C22_InFlightSurvivesInvalidation ==
    [][/\ ret'.op \in Invalidations => calls' = calls
       /\ \A i \in 1..Len(calls) :
             (ret'.op = "json.settled" /\ ret'.num = i /\ jsonSettled(i)
                 /\ MethodOf(calls[i].options) = GET /\ calls[i].response[1].body # None) =>
                 /\ Len(calls') = Len(calls)
                 /\ MapHas(cache', CallKey(calls[i]))
                 /\ Some(ItemOf(cache', CallKey(calls[i])).data) = calls[i].response[1].body
                 /\ ItemOf(cache', CallKey(calls[i])).timestamp = now]_vars

\* the opposite expectation, which the code does not meet: a key that an
\* earlier call had stored and that has been removed since is not put back
\* by a step that is not a new call
C22_InvalidationFinal ==
    [][\A key \in InvalidateKeys :
          (~MapHas(cache, key) /\ MapHas(cache', key)) =>
              ~\E i \in 1..Len(calls) :
                  CallKey(calls[i]) = key /\ calls[i].requested /\ calls[i].pc = "returned"]_vars

\* the first call stored its response, an invalidation has just removed the key,
\* and the second call, issued before, holds a response it has yet to decode
C22_RemovedWhileInFlight ==
    /\ Len(calls) = 2
    /\ ret.op \in Invalidations
    /\ calls[1].requested /\ calls[1].pc = "returned" /\ calls[1].result = Some("v1")
    /\ CallKey(calls[2]) = CallKey(calls[1])
    /\ calls[2].requested /\ calls[2].pc = "json"
    /\ calls[2].response = Some(Response(200, Some("v2")))
    /\ ~MapHas(cache, CallKey(calls[1]))

\* of two calls for the key that fetched, one has returned and one has failed
OneSucceededOneFailed(key) ==
    \E i \in 1..Len(calls), j \in 1..Len(calls) :
        /\ CallKey(calls[i]) = key /\ CallKey(calls[j]) = key
        /\ calls[i].requested /\ calls[i].pc = "returned"
        /\ calls[j].requested /\ calls[j].pc = "threw"

\* the rule "a failing call leaves the store as it is; a succeeding call leaves
\* its response in the store, with the expiry of that write; and when of two
\* calls for a key one has succeeded and one has failed, the next call for the
\* URL is served from the store", for payloads outside exempt
FailureKeepsEntry(exempt) ==
    /\ \A i \in 1..Len(calls) :
          /\ (calls[i].pc # "threw" /\ calls'[i].pc = "threw") => cache' = cache
          /\ (ret'.op = "json.settled" /\ ret'.num = i /\ calls'[i].pc = "returned") =>
                /\ MapHas(cache', CallKey(calls[i]))
                /\ Some(ItemOf(cache', CallKey(calls[i])).data) = calls[i].response[1].body
                /\ ItemOf(cache', CallKey(calls[i])).timestamp = now
                /\ ItemOf(cache', CallKey(calls[i])).expiresAt = now + defaultTTL
    /\ \A url \in RaceUrls, options \in RaceOptions, cacheTTL \in RaceTTLs :
          (ret' = Ret("fetchWithCache", EmptyStr)
              /\ OneSucceededOneFailed(CacheKey(GET, url))
              /\ MapHas(cache, CacheKey(GET, url))
              /\ ItemOf(cache, CacheKey(GET, url)).data \notin exempt
              /\ fetchWithCache(url, options, cacheTTL)) =>
              /\ NewCall.pc = "returned"
              /\ ~NewCall.requested
              /\ NewCall.result = Some(ItemOf(cache, CacheKey(GET, url)).data)
              /\ cache' = cache

\* C23, as stated: a call that fails leaves the store as it is; when two GET
\* calls for one key are in flight and one succeeds while the other fails, in
\* either order, the store holds the successful call's response with the expiry
\* of that write, and a later call for the URL is served from it.
C23_FailureKeepsEntry == [][FailureKeepsEntry({})]_vars

\* the same with the entries holding null set aside: such an entry is never
\* served (C3, C21), every other one is
C23_FailureKeepsEntryUnlessNull == [][FailureKeepsEntry({Null})]_vars

\* the second call succeeded and the first failed after it; the third call has
\* been served the second call's response from the store
C23_ServedAfterLateFailure ==
    /\ Len(calls) = 3
    /\ ret.op = "fetchWithCache"
    /\ calls[1].requested /\ calls[1].pc = "threw"
    /\ calls[2].requested /\ calls[2].pc = "returned" /\ calls[2].result = Some("v1")
    /\ ~calls[3].requested /\ calls[3].pc = "returned" /\ calls[3].result = Some("v1")
    /\ MapHas(cache, CallKey(calls[2]))

\* every entry of store n is an entry of store m, with the same value and the
\* same times: from m to n entries have been removed at most
OnlyRemoved(m, n) ==
    \A k \in 1..Len(n) : \E l \in 1..Len(m) : m[l] = n[k]

\* C24: a step that adds a key to the store or changes the value or a time of
\* an entry is a set, or the step of a GET fetchWithCache that decodes its
\* response; get, has, delete, clear, clearExpired, clearCacheByPattern, size
\* and getStats remove entries at most; and get, has and fetchWithCache on a
\* fresh entry leave the store, with the expiresAt of the entry, as it is.
C24_WritersOnly ==
    [][/\ ~OnlyRemoved(cache, cache') =>
             \/ ret'.op = "set"
             \/ /\ ret'.op = "json.settled"
                /\ calls'[ret'.num].pc = "returned"
                /\ MethodOf(calls[ret'.num].options) = GET
       /\ ret'.op \in {"get", "has", "delete", "clear", "clearExpired", "clearCacheByPattern",
                       "size", "getStats"} => OnlyRemoved(cache, cache')
       /\ \A key \in FrameKeys :
             (MapHas(cache, key) /\ ~(now > ItemOf(cache, key).expiresAt)) =>
                 /\ (ret'.op = "get" /\ get(key)) => cache' = cache
                 /\ (ret'.op = "has" /\ has(key)) => cache' = cache
                 /\ (ret'.op = "fetchWithCache" /\ NewCall.url = SubSeq(key, 5, Len(key))
                         /\ MethodOf(NewCall.options) = GET) =>
                       (cache' = cache /\ ~NewCall.requested)]_vars

\* an entry written at time 0 to expire at 1 has been read at time 1, by get and
\* then by a GET call, and still expires at 1
C24_ReadLeavesExpiry ==
    /\ now = 1
    /\ ret.op = "fetchWithCache"
    /\ Len(calls) = 1
    /\ ~calls[1].requested /\ calls[1].result = Some("v1")
    /\ MapHas(cache, CallKey(calls[1]))
    /\ ItemOf(cache, CallKey(calls[1])).timestamp = 0
    /\ ItemOf(cache, CallKey(calls[1])).expiresAt = 1

GetPrefix == <<"G", "E", "T", ":">>

\* C25: a call with the method omitted or empty is handled as a GET: it is
\* served from a fresh entry under "GET:" + url without a request, and what it
\* fetches is stored under that key. A call with the method "get" is not: it
\* issues a request whatever the store holds, leaves the store as it is when it
\* is made and when it returns, and no key starts with "get:".
C25_ExactGet ==
    [][/\ ret'.op = "fetchWithCache" =>
             LET c == NewCall
                 key == GetPrefix \o c.url
             IN  /\ (c.options.method \in {None, Some(EmptyStr)} /\ MapHas(cache, key)) =>
                       /\ ~c.requested
                       /\ c.pc = "returned"
                       /\ c.result = Some(ItemOf(cache, key).data)
                 /\ c.options.method = Some(LowerGet) =>
                       /\ c.requested /\ c.fetches = 1 /\ c.pc = "fetch"
                       /\ cache' = cache
       /\ ret'.op = "json.settled" =>
             LET c == calls[ret'.num]
                 key == GetPrefix \o c.url
             IN  /\ c.options.method \in {None, Some(EmptyStr)} =>
                       /\ MapHas(cache', key)
                       /\ Some(ItemOf(cache', key).data) = calls'[ret'.num].result
                 /\ c.options.method = Some(LowerGet) =>
                       /\ calls'[ret'.num].pc = "returned"
                       /\ cache' = cache
       /\ \A k \in 1..Len(cache') : SubSeq(cache'[k][1], 1, 4) = GetPrefix]_vars

\* the first call, without a method, stored "v1"; the second, with the method
\* "get" and the same URL, fetched and returned "v2", and the store still holds
\* the one entry with "v1"
C25_LowerGetBypassed ==
    /\ Len(calls) = 2
    /\ ret.op = "json.settled" /\ ret.num = 2
    /\ calls[1].url = calls[2].url
    /\ calls[1].options.method = None /\ calls[1].result = Some("v1")
    /\ calls[2].options.method = Some(LowerGet)
    /\ calls[2].requested /\ calls[2].pc = "returned" /\ calls[2].result = Some("v2")
    /\ Len(cache) = 1
    /\ cache[1][1] = GetPrefix \o calls[1].url
    /\ cache[1][2].data = "v1"

====
